---- MODULE Spec2Model ----
(***************************************************************************)
(* lunacal-ghl-bridge: the webhook handler POST /webhooks/lunacal of       *)
(* src/server.js, with the helpers it calls and the CRM (GHL) gateway.     *)
(*                                                                         *)
(* src/server.js holds three drafts of the service, one after the other:   *)
(*   variant "A"  lines   1-290  routing by organizer to calendar + user,  *)
(*                               fuzzy field mapping, dropdown values      *)
(*   variant "B"  lines 292-635  responsesSent flag, event-type gate,      *)
(*                               err.status propagated                     *)
(*   variant "C"  lines 637-862  routing to calendar only, debug object,   *)
(*                               contact id checked in the handler         *)
(* The deployment runs one of them; `variant` says which.                  *)
(*                                                                         *)
(* JavaScript strings are sequences of one-character strings, so that      *)
(* toLowerCase, trim, includes, split and the regular expressions are      *)
(* computed and not assumed.                                               *)
(***************************************************************************)
EXTENDS Integers, Sequences, FiniteSets, TLC

VARIABLES
    variant,        \* which draft of src/server.js is deployed
    env,            \* process.env as read at startup
    calendarMap,    \* Map built from CALENDAR_MAPPING at startup
    fieldMap,       \* Map built from CUSTOM_FIELD_MAPPING at startup
    pc,             \* per request: where its handler is
    body,           \* per request: req.body
    locals,         \* per request: the handler's local variables across awaits
    calls,          \* per request: the CRM calls issued so far, in order
    replies,        \* per request: the CRM replies received so far, in order
    responses,      \* per request: the HTTP responses sent so far, in order
    arg,            \* a helper called on its own: the helper and its argument
    ret             \* that call: pending, or returned with a value

vars == <<variant, env, calendarMap, fieldMap, pc, body, locals, calls, replies, responses,
          arg, ret>>

(***************************************************************************)
(* Strings                                                                 *)
(***************************************************************************)
LowerLetters == <<"a","b","c","d","e","f","g","h","i","j","k","l","m",
                  "n","o","p","q","r","s","t","u","v","w","x","y","z">>
UpperLetters == <<"A","B","C","D","E","F","G","H","I","J","K","L","M",
                  "N","O","P","Q","R","S","T","U","V","W","X","Y","Z">>
Digits == <<"0","1","2","3","4","5","6","7","8","9">>

Range(s) == { s[i] : i \in 1..Len(s) }
IndexIn(c, s) == CHOOSE i \in 1..Len(s) : s[i] = c

\* toLowerCase and toUpperCase of one character (ASCII letters)
LowerOf == [c \in Range(UpperLetters) |-> LowerLetters[IndexIn(c, UpperLetters)]]
UpperOf == [c \in Range(LowerLetters) |-> UpperLetters[IndexIn(c, LowerLetters)]]
LowerChar(c) == IF c \in DOMAIN LowerOf THEN LowerOf[c] ELSE c
UpperChar(c) == IF c \in DOMAIN UpperOf THEN UpperOf[c] ELSE c

ToLowerCase(s) == [i \in 1..Len(s) |-> LowerChar(s[i])]
ToUpperCase(s) == [i \in 1..Len(s) |-> UpperChar(s[i])]

\* \s of a JavaScript regular expression, and the white space trim() removes
IsSpace(c) == c \in {" ", "\t", "\n", "\r"}
\* \w of a JavaScript regular expression
WordChars == Range(LowerLetters) \cup Range(UpperLetters) \cup Range(Digits) \cup {"_"}
IsWord(c) == c \in WordChars

RECURSIVE TrimStart(_)
TrimStart(s) == IF s # << >> /\ IsSpace(Head(s)) THEN TrimStart(Tail(s)) ELSE s
RECURSIVE TrimEnd(_)
TrimEnd(s) == IF s # << >> /\ IsSpace(s[Len(s)]) THEN TrimEnd(SubSeq(s, 1, Len(s) - 1)) ELSE s
Trim(s) == TrimEnd(TrimStart(s))

StartsWith(s, p) == Len(p) <= Len(s) /\ SubSeq(s, 1, Len(p)) = p
Includes(s, sub) == \E i \in 1..(Len(s) - Len(sub) + 1) : SubSeq(s, i, i + Len(sub) - 1) = sub

\* s.split(sep) for a one-character separator: always at least one part
RECURSIVE SplitFrom(_, _, _)
SplitFrom(s, sep, cur) ==
    IF s = << >> THEN <<cur>>
    ELSE IF Head(s) = sep THEN <<cur>> \o SplitFrom(Tail(s), sep, << >>)
    ELSE SplitFrom(Tail(s), sep, Append(cur, Head(s)))
Split(s, sep) == SplitFrom(s, sep, << >>)

\* the text of a character sequence, for messages built by template literals
RECURSIVE Text(_)
Text(s) == IF s = << >> THEN "" ELSE Head(s) \o Text(Tail(s))

\* the decimal digits of a natural number, as String(n) gives them
RECURSIVE DigitsOf(_)
DigitsOf(n) == IF n < 10 THEN <<Digits[n + 1]>> ELSE Append(DigitsOf(n \div 10), Digits[(n % 10) + 1])

(***************************************************************************)
(* String literals of the program                                          *)
(***************************************************************************)
S_PING == <<"P","I","N","G">>
S_contactDot == <<"c","o","n","t","a","c","t",".">>
S_Unknown == <<"U","n","k","n","o","w","n">>
S_LunaCalBooking == <<"L","u","n","a","C","a","l"," ","B","o","o","k","i","n","g">>
S_undefined == <<"u","n","d","e","f","i","n","e","d">>
S_null == <<"n","u","l","l">>
S_objectObject == <<"[","o","b","j","e","c","t"," ","O","b","j","e","c","t","]">>
S_surajPrefix == <<"s","u","r","a","j",".","k","u","m","a","r","@","d","i","g","i","t","a","l","w","e","b","s","o","l","u","t","i","o","n","s">>
S_surajCanonical == <<"s","u","r","a","j",".","k","u","m","a","r","@","d","i","g","i","t","a","l","w","e","b","s","o","l","u","t","i","o","n","s",".","i","n">>
S_CREATED == <<"C","R","E","A","T","E","D">>
S_BOOKED == <<"B","O","O","K","E","D">>
S_RESCHEDULED == <<"R","E","S","C","H","E","D","U","L","E","D">>

(***************************************************************************)
(* JavaScript values as the handler meets them in a parsed JSON body:      *)
(* undefined (an absent key), null, a string, a number, or an object.      *)
(***************************************************************************)
Undef == [t |-> "undefined", v |-> << >>]
Null == [t |-> "null", v |-> << >>]
Str(s) == [t |-> "string", v |-> s]
Num(n) == [t |-> "number", v |-> DigitsOf(n)]
Obj == [t |-> "object", v |-> << >>]
Fun == [t |-> "function", v |-> << >>]

\* the truthiness  x || y  and  !x  test
Truthy(x) ==
    CASE x.t = "string" -> x.v # << >>
      [] x.t = "number" -> x.v # <<"0">>
      [] x.t \in {"object", "function"} -> TRUE
      [] OTHER -> FALSE
Or(x, y) == IF Truthy(x) THEN x ELSE y

\* String(x)
JsString(x) ==
    CASE x.t = "string" -> x.v
      [] x.t = "number" -> x.v
      [] x.t = "undefined" -> S_undefined
      [] x.t = "null" -> S_null
      [] OTHER -> S_objectObject

\* x?.m  for a string method m: undefined on undefined and null, the method on
\* a string, and nothing callable on a number or an object
HasStringMethods(x) == x.t = "string"
Nullish(x) == x.t \in {"undefined", "null"}

(***************************************************************************)
(* Map: insertion-ordered, set(k, v) on a present key replaces its value   *)
(* in place.  A Map is a sequence of [k, val].                             *)
(***************************************************************************)
MapHas(m, k) == \E i \in 1..Len(m) : m[i].k = k
MapGet(m, k) == m[CHOOSE i \in 1..Len(m) : m[i].k = k].val
MapSet(m, k, val) ==
    IF MapHas(m, k)
    THEN [i \in 1..Len(m) |-> IF m[i].k = k THEN [k |-> k, val |-> val] ELSE m[i]]
    ELSE Append(m, [k |-> k, val |-> val])

\* parts[i] of a split: undefined past the end
PartAt(parts, i) == IF i <= Len(parts) THEN Str(parts[i]) ELSE Undef
\* parts[i]?.trim()
TrimOpt(x) == IF Nullish(x) THEN x ELSE Str(Trim(x.v))
\* parts[i]?.trim().toLowerCase()
TrimLowerOpt(x) == IF Nullish(x) THEN x ELSE Str(ToLowerCase(Trim(x.v)))

(***************************************************************************)
(* calendarMap, built once at startup from CALENDAR_MAPPING                *)
(***************************************************************************)
\* variant A: email:calendarId:userId, keys trimmed and lower-cased
CalendarItemA(m, item) ==
    LET parts == Split(item, ":")
        email == TrimLowerOpt(PartAt(parts, 1))
        calId == TrimOpt(PartAt(parts, 2))
        userId == TrimOpt(PartAt(parts, 3))
    IN  IF Truthy(email) /\ Truthy(calId)
        THEN MapSet(m, email.v, [calId |-> calId, userId |-> userId])
        ELSE m

\* variant C: email:calendarId, the value is the calendar id alone
CalendarItemC(m, item) ==
    LET parts == Split(item, ":")
        email == PartAt(parts, 1)
        id == PartAt(parts, 2)
    IN  IF Truthy(email) /\ Truthy(id)
        THEN MapSet(m, ToLowerCase(Trim(email.v)), [calId |-> Str(Trim(id.v)), userId |-> Undef])
        ELSE m

RECURSIVE FoldCalendar(_, _, _)
FoldCalendar(v, items, m) ==
    IF items = << >> THEN m
    ELSE FoldCalendar(v, Tail(items),
                      IF v = "A" THEN CalendarItemA(m, Head(items)) ELSE CalendarItemC(m, Head(items)))

\* variant B has no routing table
ParseCalendarMapping(v, CALENDAR_MAPPING) ==
    IF v = "B" \/ CALENDAR_MAPPING = << >> THEN << >>
    ELSE FoldCalendar(v, Split(CALENDAR_MAPPING, ","), << >>)

(***************************************************************************)
(* fieldMap, built once at startup from CUSTOM_FIELD_MAPPING               *)
(***************************************************************************)
\* variant A lower-cases the label, variant C keeps its case
FieldItem(v, m, item) ==
    LET parts == Split(item, ":")
        label == PartAt(parts, 1)
        key == PartAt(parts, 2)
    IN  IF Truthy(label) /\ Truthy(key)
        THEN MapSet(m, IF v = "A" THEN ToLowerCase(Trim(label.v)) ELSE Trim(label.v), Trim(key.v))
        ELSE m

RECURSIVE FoldField(_, _, _)
FoldField(v, items, m) ==
    IF items = << >> THEN m ELSE FoldField(v, Tail(items), FieldItem(v, m, Head(items)))

ParseFieldMapping(v, CUSTOM_FIELD_MAPPING) ==
    IF v = "B" \/ CUSTOM_FIELD_MAPPING = << >> THEN << >>
    ELSE FoldField(v, Split(CUSTOM_FIELD_MAPPING, ","), << >>)

(***************************************************************************)
(* normalizeTime                                                           *)
(***************************************************************************)
S_epochPrefix == <<"1","9","7","0","-","0","1","-","0","1","T","0","0",":","0","0",":","0","0",".">>
T_1000 == <<"2","0","2","4","-","0","1","-","0","1","T","1","0",":","0","0",":","0","0","Z">>
T_1000_iso == <<"2","0","2","4","-","0","1","-","0","1","T","1","0",":","0","0",":","0","0",".","0","0","0","Z">>
T_1030 == <<"2","0","2","4","-","0","1","-","0","1","T","1","0",":","3","0",":","0","0","Z">>
T_1030_iso == <<"2","0","2","4","-","0","1","-","0","1","T","1","0",":","3","0",":","0","0",".","0","0","0","Z">>
T_1000_offset == <<"2","0","2","4","-","0","1","-","0","1","T","1","5",":","3","0",":","0","0","+","0","5",":","3","0">>
T_garbage == <<"s","o","o","n">>

\* new Date(v).toISOString() on the date strings of this model and on a small
\* number of milliseconds; << >> stands for an Invalid Date (getTime() is NaN)
DateToISOString(v) ==
    CASE v.t = "string" /\ v.v \in {T_1000, T_1000_iso, T_1000_offset} -> T_1000_iso
      [] v.t = "string" /\ v.v \in {T_1030, T_1030_iso} -> T_1030_iso
      [] v.t = "number" /\ Len(v.v) <= 3 ->
            S_epochPrefix \o [i \in 1..(3 - Len(v.v)) |-> "0"] \o v.v \o <<"Z">>
      [] OTHER -> << >>

normalizeTime(v) ==
    IF ~Truthy(v) THEN Null
    ELSE IF DateToISOString(v) = << >> THEN Null
    ELSE Str(DateToISOString(v))

(***************************************************************************)
(* The payload: an untyped bag.  Only the keys some variant reads are      *)
(* kept; an absent key is Undef.                                           *)
(*   attendees   a sequence of [name, email, phone] (absent: << >>)        *)
(*   responses   the entries of an object in key order, each               *)
(*               [key, isNull, label, value]                               *)
(***************************************************************************)
K_name == <<"n","a","m","e">>
K_email == <<"e","m","a","i","l">>
K_phone == <<"p","h","o","n","e">>

NoPerson == [name |-> Undef, email |-> Undef, phone |-> Undef]

EmptyPayload ==
    [startTime |-> Undef, start |-> Undef, endTime |-> Undef, end |-> Undef,
     eventTitle |-> Undef, title |-> Undef,
     attendees |-> << >>, responses |-> << >>, invitee |-> NoPerson,
     name |-> Undef, email |-> Undef, phone |-> Undef,
     organizerEmail |-> Undef,
     booking |-> [startTime |-> Undef, endTime |-> Undef, title |-> Undef]]

\* payload?.responses?.<key>?.value
ResponseValue(payload, key) ==
    LET rs == payload.responses
    IN  IF \E i \in 1..Len(rs) : rs[i].key = key
        THEN LET e == rs[CHOOSE i \in 1..Len(rs) : rs[i].key = key]
             IN  IF e.isNull THEN Undef ELSE e.value
        ELSE Undef

(***************************************************************************)
(* extractAttendee: the same text in the three variants                    *)
(***************************************************************************)
FirstAttendee(payload) == IF payload.attendees = << >> THEN NoPerson ELSE payload.attendees[1]

\* extractAttendee with the chain read from the top-level keys back to the
\* first attendee
extractAttendee_lastSourceFirst(payload) ==
    LET attendee == FirstAttendee(payload)
    IN  [name |-> Or(payload.name, Or(payload.invitee.name,
                  Or(ResponseValue(payload, K_name), Or(attendee.name, Str(S_Unknown))))),
         email |-> Or(payload.email, Or(payload.invitee.email,
                   Or(ResponseValue(payload, K_email), Or(attendee.email, Null)))),
         phone |-> Or(payload.phone, Or(payload.invitee.phone,
                   Or(ResponseValue(payload, K_phone), Or(attendee.phone, Null))))]

extractAttendee(payload) ==
    LET attendee == FirstAttendee(payload)
    IN  [name |-> Or(attendee.name, Or(ResponseValue(payload, K_name),
                  Or(payload.invitee.name, Or(payload.name, Str(S_Unknown))))),
         email |-> Or(attendee.email, Or(ResponseValue(payload, K_email),
                   Or(payload.invitee.email, Or(payload.email, Null)))),
         phone |-> Or(attendee.phone, Or(ResponseValue(payload, K_phone),
                   Or(payload.invitee.phone, Or(payload.phone, Null))))]

(***************************************************************************)
(* shouldCreateAppointment (variant B)                                     *)
(***************************************************************************)
shouldCreateAppointment(triggerEvent) ==
    LET normalized == ToUpperCase(JsString(Or(Str(triggerEvent), Str(<< >>))))
    IN  Includes(normalized, S_CREATED) \/ Includes(normalized, S_BOOKED)
        \/ Includes(normalized, S_RESCHEDULED)

(***************************************************************************)
(* normalizeDropdownValue (variant A)                                      *)
(***************************************************************************)
R_ceo_founder == <<"c","e","o"," ","/"," ","f","o","u","n","d","e","r">>
R_ceofounder == <<"c","e","o","/","f","o","u","n","d","e","r">>
R_CEO_Founder == <<"C","E","O"," ","/"," ","F","o","u","n","d","e","r">>
R_cmo == <<"c","h","i","e","f"," ","m","a","r","k","e","t","i","n","g"," ","o","f","f","i","c","e","r">>
R_CMO == <<"C","h","i","e","f"," ","M","a","r","k","e","t","i","n","g"," ","O","f","f","i","c","e","r">>
R_seo_director == <<"s","e","o"," ","d","i","r","e","c","t","o","r">>
R_SEO_Director == <<"S","E","O"," ","D","i","r","e","c","t","o","r">>
R_seo_manager == <<"s","e","o"," ","m","a","n","a","g","e","r">>
R_SEO_Manager == <<"S","E","O"," ","M","a","n","a","g","e","r">>
R_marketing_manager == <<"m","a","r","k","e","t","i","n","g"," ","m","a","n","a","g","e","r">>
R_Marketing_Manager == <<"M","a","r","k","e","t","i","n","g"," ","M","a","n","a","g","e","r">>
R_other == <<"o","t","h","e","r">>
R_Other == <<"O","t","h","e","r">>
B_lt5k_comma == <<"l","e","s","s"," ","t","h","a","n"," ","$","5",",","0","0","0">>
B_lt5k == <<"l","e","s","s"," ","t","h","a","n"," ","$","5","0","0","0">>
B_Lt5k == <<"L","e","s","s"," ","t","h","a","n"," ","$","5",",","0","0","0">>
B_btw_comma == <<"b","e","t","w","e","e","n"," ","$","5",",","0","0","0"," ","-"," ","$","1","0",",","0","0","0">>
B_btw == <<"b","e","t","w","e","e","n"," ","$","5","0","0","0"," ","-"," ","$","1","0","0","0","0">>
B_Btw == <<"B","e","t","w","e","e","n"," ","$","5",",","0","0","0"," ","-"," ","$","1","0",",","0","0","0">>
B_gt10k_comma == <<"m","o","r","e"," ","t","h","a","n"," ","$","1","0",",","0","0","0">>
B_gt10k == <<"m","o","r","e"," ","t","h","a","n"," ","$","1","0","0","0","0">>
B_Gt10k == <<"M","o","r","e"," ","t","h","a","n"," ","$","1","0",",","0","0","0">>
P_constructor == <<"c","o","n","s","t","r","u","c","t","o","r">>
P_proto == <<"_","_","p","r","o","t","o","_","_">>

\* The own keys of the two object literals.
roleOptions ==
    << [k |-> R_ceo_founder, val |-> R_CEO_Founder],
       [k |-> R_ceofounder, val |-> R_CEO_Founder],
       [k |-> R_cmo, val |-> R_CMO],
       [k |-> R_seo_director, val |-> R_SEO_Director],
       [k |-> R_seo_manager, val |-> R_SEO_Manager],
       [k |-> R_marketing_manager, val |-> R_Marketing_Manager],
       [k |-> R_other, val |-> R_Other] >>

budgetOptions ==
    << [k |-> B_lt5k_comma, val |-> B_Lt5k],
       [k |-> B_lt5k, val |-> B_Lt5k],
       [k |-> B_btw_comma, val |-> B_Btw],
       [k |-> B_btw, val |-> B_Btw],
       [k |-> B_gt10k_comma, val |-> B_Gt10k],
       [k |-> B_gt10k, val |-> B_Gt10k] >>

\* options[normalized] on an object literal: an own key, else what
\* Object.prototype gives for a lower-case name (constructor is a function,
\* __proto__ an object), else undefined
ObjectLookup(options, normalized) ==
    IF MapHas(options, normalized) THEN Str(MapGet(options, normalized))
    ELSE IF normalized = P_constructor THEN Fun
    ELSE IF normalized = P_proto THEN Obj
    ELSE Undef

normalizeDropdownValue(value) ==
    IF ~Truthy(value) THEN value
    ELSE LET val == Trim(JsString(value))
             normalized == ToLowerCase(val)
         IN  IF Truthy(ObjectLookup(roleOptions, normalized)) THEN ObjectLookup(roleOptions, normalized)
             ELSE IF Truthy(ObjectLookup(budgetOptions, normalized)) THEN ObjectLookup(budgetOptions, normalized)
             ELSE Str(val)

(***************************************************************************)
(* extractCustomFields                                                     *)
(***************************************************************************)
\* s.replace(/[^\w\s]/g, '')
RECURSIVE StripNonWord(_)
StripNonWord(s) ==
    IF s = << >> THEN << >>
    ELSE IF IsWord(Head(s)) \/ IsSpace(Head(s)) THEN <<Head(s)>> \o StripNonWord(Tail(s))
    ELSE StripNonWord(Tail(s))

\* s.replace(/\s+/g, ' ')
RECURSIVE CollapseSpaces(_)
CollapseSpaces(s) ==
    IF s = << >> THEN << >>
    ELSE IF IsSpace(Head(s))
         THEN <<" ">> \o CollapseSpaces(TrimStart(Tail(s)))
         ELSE <<Head(s)>> \o CollapseSpaces(Tail(s))

\* .trim().toLowerCase().replace(/[^\w\s]/g, '').replace(/\s+/g, ' ')
NormalizeLabel(s) == CollapseSpaces(StripNonWord(ToLowerCase(Trim(s))))

\* (responses[key]?.label || ""): a truthy label that is no string has no trim()
LabelThrows(e) == ~e.isNull /\ Truthy(e.label) /\ ~HasStringMethods(e.label)
ActualLabel(e) == IF e.isNull \/ ~Truthy(e.label) THEN << >> ELSE NormalizeLabel(e.label.v)

\* The inner loop of variant A over the response entries, for one configured
\* label: "throw" (a TypeError), "match" with the stored value, or "none".
RECURSIVE ScanResponses(_, _)
ScanResponses(rs, normalizedTarget) ==
    IF rs = << >> THEN [kind |-> "none", value |-> Undef]
    ELSE LET e == Head(rs)
         IN  IF LabelThrows(e) THEN [kind |-> "throw", value |-> Undef]
             ELSE IF ActualLabel(e) = normalizedTarget
                  THEN IF e.isNull THEN [kind |-> "throw", value |-> Undef]
                       ELSE [kind |-> "match", value |-> normalizeDropdownValue(e.value)]
                  ELSE ScanResponses(Tail(rs), normalizedTarget)

RECURSIVE ExtractFieldsA(_, _, _)
ExtractFieldsA(fm, rs, fields) ==
    IF fm = << >> THEN [threw |-> FALSE, fields |-> fields]
    ELSE LET hit == ScanResponses(rs, NormalizeLabel(Head(fm).k))
         IN  IF hit.kind = "throw" THEN [threw |-> TRUE, fields |-> fields]
             ELSE ExtractFieldsA(Tail(fm), rs,
                      IF hit.kind = "match" THEN MapSet(fields, Head(fm).val, hit.value) ELSE fields)

\* Variant C: exact label, every matching entry stores (the last one stays)
RECURSIVE ScanResponsesC(_, _, _, _)
ScanResponsesC(rs, label, ghlKey, fields) ==
    IF rs = << >> THEN fields
    ELSE LET e == Head(rs)
         IN  ScanResponsesC(Tail(rs), label, ghlKey,
                 IF ~e.isNull /\ e.label = Str(label) /\ e.value.t # "undefined"
                 THEN MapSet(fields, ghlKey, e.value) ELSE fields)

RECURSIVE ExtractFieldsC(_, _, _)
ExtractFieldsC(fm, rs, fields) ==
    IF fm = << >> THEN [threw |-> FALSE, fields |-> fields]
    ELSE ExtractFieldsC(Tail(fm), rs, ScanResponsesC(rs, Head(fm).k, Head(fm).val, fields))

\* extractCustomFields(payload) of the deployed variant, reading fieldMap
extractCustomFields(v, fm, payload) ==
    IF v = "A" THEN ExtractFieldsA(fm, payload.responses, << >>)
    ELSE ExtractFieldsC(fm, payload.responses, << >>)

(***************************************************************************)
(* The CRM gateway                                                         *)
(*   a reply is what fetch() gives: a network failure (fetch rejects), or  *)
(*   an HTTP status with a body; `json` says whether the body parses, and  *)
(*   contact_id, contactId, id are data.contact.id, data.contactId and     *)
(*   data.id of the parsed body.                                           *)
(***************************************************************************)
ResOk(status) == 200 <= status /\ status <= 299

\* ghlRequest without the `if (!res.ok)` block: a non-2xx body is returned
ghlRequest_noOkCheck(reply) ==
    IF reply.kind = "networkError"
    THEN [threw |-> TRUE, message |-> "fetch failed", status |-> 0,
          data |-> [contact_id |-> Undef, contactId |-> Undef, id |-> Undef]]
    ELSE [threw |-> FALSE, message |-> "", status |-> 0,
          data |-> IF reply.json
                   THEN [contact_id |-> reply.contact_id, contactId |-> reply.contactId, id |-> reply.id]
                   ELSE [contact_id |-> Undef, contactId |-> Undef, id |-> Undef]]

\* ghlRequest after fetch() settled: the parsed data, or the Error thrown
ghlRequest(reply) ==
    IF reply.kind = "networkError"
    THEN [threw |-> TRUE, message |-> "fetch failed", status |-> 0,
          data |-> [contact_id |-> Undef, contactId |-> Undef, id |-> Undef]]
    ELSE LET data == IF reply.json
                     THEN [contact_id |-> reply.contact_id, contactId |-> reply.contactId, id |-> reply.id]
                     ELSE [contact_id |-> Undef, contactId |-> Undef, id |-> Undef]
         IN  IF ~ResOk(reply.status)
             THEN [threw |-> TRUE, message |-> "GHL API error " \o ToString(reply.status),
                   status |-> reply.status, data |-> data]
             ELSE [threw |-> FALSE, message |-> "", status |-> 0, data |-> data]

\* resp?.contact?.id || resp?.contactId || resp?.id || null
ContactIdOf(data) == Or(data.contact_id, Or(data.contactId, Or(data.id, Null)))

\* customFields of the upsert body: variant A sends a key for contact.* names
CustomFieldList(v, fields) ==
    [i \in 1..Len(fields) |->
        [by |-> IF v = "A" /\ StartsWith(fields[i].k, S_contactDot) THEN "key" ELSE "id",
         name |-> fields[i].k, value |-> fields[i].val]]

\* the body upsertContact posts to /contacts/upsert
UpsertBody(v, e, name, email, phone, customFields) ==
    [locationId |-> e.GHL_LOCATION_ID,
     name |-> JsString(Or(name, Str(S_Unknown))),
     email |-> JsString(Or(email, Str(<< >>))),
     phone |-> IF Truthy(phone) THEN Str(JsString(phone)) ELSE Undef,
     customFields |-> IF v = "B" THEN << >> ELSE CustomFieldList(v, customFields)]

\* upsertContact after its ghlRequest returned: the contact id, or the Error
upsertContactResult(v, reply) ==
    LET r == ghlRequest(reply)
        contactId == ContactIdOf(r.data)
    IN  IF r.threw THEN [threw |-> TRUE, message |-> r.message, status |-> r.status, contactId |-> Null]
        ELSE IF v = "B" /\ ~Truthy(contactId)
             THEN [threw |-> TRUE, message |-> "No contactId in response", status |-> 0, contactId |-> Null]
             ELSE [threw |-> FALSE, message |-> "", status |-> 0, contactId |-> contactId]

\* the body createAppointment posts to /calendars/events/appointments
AppointmentBody(v, e, contactId, startTime, endTime, title, calendarId, assignedUserId) ==
    [locationId |-> e.GHL_LOCATION_ID,
     calendarId |-> IF v = "B" THEN e.GHL_CALENDAR_ID ELSE calendarId,
     contactId |-> JsString(contactId),
     title |-> JsString(Or(title, Str(S_LunaCalBooking))),
     startTime |-> JsString(startTime),
     endTime |-> JsString(endTime),
     ignoreFreeSlotValidation |-> (v = "A"),
     assignedUserId |-> IF v = "A" /\ Truthy(assignedUserId) THEN assignedUserId ELSE Undef]

(***************************************************************************)
(* The webhook handler, app.post("/webhooks/lunacal")                      *)
(*                                                                         *)
(* req.body is [triggerEvent, event, type, hasPayload, payload, own]:      *)
(* `own` holds the payload keys found at the top level of the body, which  *)
(* the handler reads when the body has no truthy `payload`.                *)
(*                                                                         *)
(* A response is [status, ok, message, contactId, appointmentId,           *)
(* calendarId, debug]; Undef is a key res.json() leaves out, and debug is  *)
(* the sequence of the debug object's [k, val], << >> when there is none.  *)
(***************************************************************************)
Response(status, ok, message) ==
    [status |-> status, ok |-> ok, message |-> message,
     contactId |-> Undef, appointmentId |-> Undef, calendarId |-> Undef, debug |-> << >>]

NoLocals ==
    [name |-> Undef, email |-> Undef, phone |-> Undef, customFields |-> << >>,
     startTime |-> Undef, endTime |-> Undef, title |-> Undef,
     targetCalendarId |-> Undef, targetUserId |-> Undef, contactId |-> Undef,
     triggerEvent |-> << >>, responsesSent |-> FALSE]

\* String(data?.triggerEvent || data?.event || data?.type || "")
TriggerEventOf(data) == JsString(Or(data.triggerEvent, Or(data.event, Or(data.type, Str(<< >>)))))
\* data?.payload || data
PayloadOf(data) == IF data.hasPayload THEN data.payload ELSE data.own

\* IsPing without toUpperCase(): "ping" in lower case goes undetected
IsPing_caseSensitive(triggerEvent) == Includes(triggerEvent, S_PING)

IsPing(triggerEvent) == Includes(ToUpperCase(triggerEvent), S_PING)

\* payload?.organizer?.email?.toLowerCase(): a TypeError when the email is
\* neither absent nor a string
OrganizerThrows(payload) == ~Nullish(payload.organizerEmail) /\ ~HasStringMethods(payload.organizerEmail)
\* the organizer email looked up as given, without toLowerCase()
OrganizerLower_asGiven(payload) ==
    IF Nullish(payload.organizerEmail) THEN Undef ELSE Str(payload.organizerEmail.v)

OrganizerLower(payload) ==
    IF Nullish(payload.organizerEmail) THEN Undef ELSE Str(ToLowerCase(payload.organizerEmail.v))

\* Routing of variant A: the organizer email, lower-cased, with the one
\* hard-coded correction, looked up in calendarMap; else the default calendar
ResolveRouteA(e, cm, payload) ==
    LET lowered == Or(OrganizerLower(payload), Str(<< >>))
        organizerEmail == IF Includes(lowered.v, S_surajPrefix) THEN Str(S_surajCanonical) ELSE lowered
    IN  IF Truthy(organizerEmail) /\ MapHas(cm, organizerEmail.v)
        THEN [targetCalendarId |-> MapGet(cm, organizerEmail.v).calId,
              targetUserId |-> MapGet(cm, organizerEmail.v).userId]
        ELSE [targetCalendarId |-> e.GHL_CALENDAR_ID, targetUserId |-> Null]

\* Routing of variant C: no correction, no user
ResolveRouteC(e, cm, payload) ==
    LET organizerEmail == OrganizerLower(payload)
    IN  IF Truthy(organizerEmail) /\ MapHas(cm, organizerEmail.v)
        THEN [targetCalendarId |-> MapGet(cm, organizerEmail.v).calId, targetUserId |-> Null]
        ELSE [targetCalendarId |-> e.GHL_CALENDAR_ID, targetUserId |-> Null]

\* What the synchronous part of a handler ends in: a response (the handler is
\* over), or the upsert call (the handler awaits it, holding its locals).
Responds(resp) == [next |-> "done", response |-> <<resp>>, call |-> << >>, locals |-> NoLocals]
IssuesUpsert(v, e, l) ==
    [next |-> "awaitUpsert", response |-> << >>,
     call |-> << [op |-> "upsertContact",
                  body |-> UpsertBody(v, e, l.name, l.email, l.phone, l.customFields)] >>,
     locals |-> l]

\* a catch block that hides the error's message, as the global error handler
\* of variant B does
CatchAC_generic(message) == Response(500, FALSE, "Internal error")

\* catch (err) of variants A and C
CatchAC(message) == Response(500, FALSE, message)
\* catch (err) of variant B: nothing when a response was sent, else the
\* error's status if it has one
CatchB(l, message, status) ==
    IF l.responsesSent THEN << >>
    ELSE << Response(IF status # 0 THEN status ELSE 500, FALSE, message) >>

\* a catch block that logs the error and sends nothing
Catch_logOnly(v, l, message, status) == << >>

\* the catch block of the deployed variant: the responses it sends
Catch(v, l, message, status) ==
    IF v = "B" THEN CatchB(l, message, status) ELSE <<CatchAC(message)>>

\* a step of the handler threw: control goes to the catch block and the
\* handler is over
Throws(v, l, message, status) ==
    [next |-> "done", response |-> Catch(v, l, message, status), call |-> << >>, locals |-> l]

ValidationFails(l, needCalendar) ==
    ~Truthy(l.email) \/ ~Truthy(l.startTime) \/ ~Truthy(l.endTime)
    \/ (needCalendar /\ ~Truthy(l.targetCalendarId))

\* ---- variant A, lines 213-262
HandlerStartA(e, cm, fm, data) ==
    IF ~Truthy(e.GHL_PRIVATE_TOKEN) \/ ~Truthy(e.GHL_LOCATION_ID)
    THEN Responds(Response(500, FALSE, "Missing GHL configuration"))
    ELSE
    LET triggerEvent == TriggerEventOf(data)
        payload == PayloadOf(data)
    IN  IF IsPing(triggerEvent) THEN Responds(Response(200, TRUE, "Received PING."))
        ELSE
        LET attendee == extractAttendee(payload)
            custom == extractCustomFields("A", fm, payload)
            route == ResolveRouteA(e, cm, payload)
            l == [NoLocals EXCEPT
                    !.startTime = normalizeTime(Or(payload.startTime, payload.start)),
                    !.endTime = normalizeTime(Or(payload.endTime, payload.end)),
                    !.title = Str(JsString(Or(payload.eventTitle, Or(payload.title, Str(S_LunaCalBooking))))),
                    !.name = attendee.name, !.email = attendee.email, !.phone = attendee.phone,
                    !.customFields = custom.fields,
                    !.targetCalendarId = route.targetCalendarId,
                    !.targetUserId = route.targetUserId,
                    !.triggerEvent = triggerEvent]
        IN  IF custom.threw THEN Throws("A", l, "TypeError in extractCustomFields", 0)
            ELSE IF OrganizerThrows(payload)
                 THEN Throws("A", l, "payload?.organizer?.email?.toLowerCase is not a function", 0)
            ELSE IF ValidationFails(l, TRUE)
                 THEN Responds(Response(400, FALSE, "Missing required fields"))
            ELSE IssuesUpsert("A", e, l)

\* ---- variant C, lines 786-835
HandlerStartC(e, cm, fm, data) ==
    IF ~Truthy(e.GHL_PRIVATE_TOKEN) \/ ~Truthy(e.GHL_LOCATION_ID)
    THEN Responds(Response(500, FALSE, "Missing GHL configuration"))
    ELSE
    LET triggerEvent == TriggerEventOf(data)
        payload == PayloadOf(data)
    IN  IF IsPing(triggerEvent) THEN Responds(Response(200, TRUE, "Received PING."))
        ELSE
        LET attendee == extractAttendee(payload)
            custom == extractCustomFields("C", fm, payload)
            route == ResolveRouteC(e, cm, payload)
            l == [NoLocals EXCEPT
                    !.startTime = normalizeTime(Or(payload.startTime, payload.start)),
                    !.endTime = normalizeTime(Or(payload.endTime, payload.end)),
                    !.title = Str(JsString(Or(payload.eventTitle, Or(payload.title, Str(S_LunaCalBooking))))),
                    !.name = attendee.name, !.email = attendee.email, !.phone = attendee.phone,
                    !.customFields = custom.fields,
                    !.targetCalendarId = route.targetCalendarId,
                    !.targetUserId = route.targetUserId,
                    !.triggerEvent = triggerEvent]
        IN  IF OrganizerThrows(payload)
            THEN Throws("C", l, "payload?.organizer?.email?.toLowerCase is not a function", 0)
            ELSE IF ValidationFails(l, TRUE)
                 THEN Responds([Response(400, FALSE, "Missing required fields") EXCEPT
                          !.debug = << [k |-> "email", val |-> l.email],
                                       [k |-> "startTime", val |-> l.startTime],
                                       [k |-> "endTime", val |-> l.endTime],
                                       [k |-> "targetCalendarId", val |-> l.targetCalendarId] >>])
            ELSE IssuesUpsert("C", e, l)

\* ---- variant B, lines 527-583
HandlerStartB(e, data) ==
    IF ~Truthy(e.GHL_PRIVATE_TOKEN) \/ ~Truthy(e.GHL_LOCATION_ID) \/ ~Truthy(e.GHL_CALENDAR_ID)
    THEN Responds(Response(500, FALSE, "Missing GHL configuration"))
    ELSE
    LET triggerEvent == TriggerEventOf(data)
        payload == PayloadOf(data)
        attendee == extractAttendee(payload)
        l == [NoLocals EXCEPT
                !.startTime = normalizeTime(Or(payload.startTime, Or(payload.start, Or(payload.booking.startTime, Null)))),
                !.endTime = normalizeTime(Or(payload.endTime, Or(payload.end, Or(payload.booking.endTime, Null)))),
                !.title = Str(JsString(Or(payload.eventTitle, Or(payload.title,
                                Or(payload.booking.title, Str(S_LunaCalBooking)))))),
                !.name = attendee.name, !.email = attendee.email, !.phone = attendee.phone,
                !.triggerEvent = triggerEvent]
    IN  IF IsPing(triggerEvent)
        THEN Responds(Response(200, TRUE, "Received PING. No action taken."))
        ELSE IF ValidationFails(l, FALSE)
             THEN Responds([Response(400, FALSE, "Missing required fields") EXCEPT
                      !.debug = << [k |-> "email", val |-> l.email],
                                   [k |-> "startTime", val |-> l.startTime],
                                   [k |-> "endTime", val |-> l.endTime] >>])
        ELSE IF ~shouldCreateAppointment(triggerEvent)
             THEN Responds(Response(200, TRUE, "Received " \o Text(triggerEvent) \o ". No action taken."))
        ELSE IssuesUpsert("B", e, l)

HandlerStart(v, e, cm, fm, data) ==
    CASE v = "A" -> HandlerStartA(e, cm, fm, data)
      [] v = "B" -> HandlerStartB(e, data)
      [] OTHER -> HandlerStartC(e, cm, fm, data)

\* after `await upsertContact(...)` settled, lines 264-272 / 583-584 / 835-841
HandlerAfterUpsert(v, e, l, reply) ==
    LET r == upsertContactResult(v, reply)
    IN  IF r.threw
        THEN Throws(v, l, r.message, r.status)
        ELSE IF v = "C" /\ ~Truthy(r.contactId)
        THEN Throws(v, l, "Failed to get contactId from GHL", 0)
        ELSE [next |-> "awaitCreate", response |-> << >>,
              locals |-> [l EXCEPT !.contactId = r.contactId],
              call |-> << [op |-> "createAppointment",
                           body |-> AppointmentBody(v, e, r.contactId, l.startTime, l.endTime,
                                                    l.title, l.targetCalendarId, l.targetUserId)] >>]

\* the 200 of lines 274-279 / 586-591 / 844-850
Synced(v, l, appointment) ==
    [Response(200, TRUE, "Synced to GoHighLevel") EXCEPT
        !.contactId = l.contactId,
        !.appointmentId = IF v = "B" THEN Undef ELSE appointment.id,
        !.calendarId = IF v = "C" THEN l.targetCalendarId ELSE Undef]

\* after `await createAppointment(...)` settled
HandlerAfterCreate(v, l, reply) ==
    LET r == ghlRequest(reply)
    IN  IF r.threw
        THEN Throws(v, l, r.message, r.status)
        ELSE [next |-> "done", call |-> << >>,
              locals |-> [l EXCEPT !.responsesSent = (v = "B")],
              response |-> <<Synced(v, l, r.data)>>]

(***************************************************************************)
(* Inputs: configurations, request bodies and CRM replies                  *)
(***************************************************************************)
NumReq == 2
Req == 1..NumReq

E_CREATED == <<"B","O","O","K","I","N","G","_","C","R","E","A","T","E","D">>
E_CANCELLED == <<"B","O","O","K","I","N","G","_","C","A","N","C","E","L","L","E","D">>
E_rescheduled == <<"b","o","o","k","i","n","g",".","r","e","s","c","h","e","d","u","l","e","d">>
E_ping == <<"p","i","n","g">>
M_jo == <<"j","o","@","x",".","c","o","m">>
M_amy == <<"a","m","y","@","y",".","o","r","g">>
M_Jane == <<"J","a","n","e","@","A","c","m","e",".","c","o","m">>
M_surajCom == <<"S","u","r","a","j",".","K","u","m","a","r","@","d","i","g","i","t","a","l","w","e","b","s","o","l","u","t","i","o","n","s",".","c","o","m">>
M_bob == <<"b","o","b","@","x",".","i","o">>
ID_tok == <<"t","o","k","_","1">>
ID_loc == <<"l","o","c","_","1">>
ID_cal0 == <<"c","a","l","_","0">>
ID_cal1 == <<"c","a","l","_","1">>
ID_user7 == <<"u","s","e","r","_","7">>
ID_c1 == <<"c","_","1">>
ID_c2 == <<"c","_","2">>
ID_c3 == <<"c","_","3">>
ID_a1 == <<"a","_","1">>
\* " Jane@Acme.com : cal_1 : user_7 ,suraj.kumar@digitalwebsolutions.in:cal_2"
CFG_calendar == <<" ","J","a","n","e","@","A","c","m","e",".","c","o","m"," ",":"," ","c","a","l","_","1"," ",":"," ","u","s","e","r","_","7"," ",",","s","u","r","a","j",".","k","u","m","a","r","@","d","i","g","i","t","a","l","w","e","b","s","o","l","u","t","i","o","n","s",".","i","n",":","c","a","l","_","2">>
\* "What's your role:contact.role"
CFG_fields == <<"W","h","a","t","'","s"," ","y","o","u","r"," ","r","o","l","e",":","c","o","n","t","a","c","t",".","r","o","l","e">>
L_role == <<"W","h","a","t","'","s"," "," ","Y","o","u","r"," ","R","o","l","e","?">>
V_ceo == <<" ","C","E","O","/","F","o","u","n","d","e","r"," ">>
K_q1 == <<"q","1">>
N_Jo == <<"J","o">>

\* process.env: credentials set, or one of them missing; the default calendar
\* set or not; the two mapping strings set or empty
Envs ==
    { [GHL_PRIVATE_TOKEN |-> c[1], GHL_LOCATION_ID |-> c[2], GHL_CALENDAR_ID |-> d,
       CALENDAR_MAPPING |-> m, CUSTOM_FIELD_MAPPING |-> CFG_fields] :
        c \in { <<Str(ID_tok), Str(ID_loc)>>, <<Undef, Str(ID_loc)>>, <<Str(ID_tok), Str(<< >>)>> },
        d \in { Str(ID_cal0), Undef },
        m \in { CFG_calendar, << >> } }

\* (triggerEvent, event, type) of a body
EventKeys ==
    { <<Str(E_CREATED), Undef, Undef>>,
      <<Undef, Str(E_CANCELLED), Undef>>,
      <<Str(<< >>), Str(E_rescheduled), Undef>>,
      <<Undef, Undef, Str(E_ping)>>,
      <<Str(E_CREATED), Str(S_PING), Undef>>,
      <<Undef, Undef, Undef>> }

\* who booked: nobody, the first attendee, or top-level keys
Bookers ==
    { [attendees |-> << >>, email |-> Undef],
      [attendees |-> << [name |-> Str(N_Jo), email |-> Str(M_jo), phone |-> Undef] >>, email |-> Str(M_amy)],
      [attendees |-> << [name |-> Undef, email |-> Str(<< >>), phone |-> Undef] >>, email |-> Str(M_amy)] }

\* (startTime, start)
Starts == { <<Str(T_1000), Undef>>, <<Undef, Str(T_1000_offset)>>, <<Str(T_garbage), Str(T_1000)>> }
\* endTime
Ends == { Str(T_1030), Undef }

Organizers == { Undef, Str(M_Jane), Str(M_surajCom), Str(M_bob), Num(7) }

\* responses: none; one answer to the mapped question; an entry whose label
\* is a number, before that answer
RoleAnswer == [key |-> K_q1, isNull |-> FALSE, label |-> Str(L_role), value |-> Str(V_ceo)]
ResponseSets ==
    { << >>,
      << RoleAnswer >>,
      << [key |-> K_email, isNull |-> FALSE, label |-> Num(5), value |-> Str(M_jo)], RoleAnswer >> }

Payloads ==
    { [EmptyPayload EXCEPT
         !.startTime = s[1], !.start = s[2], !.endTime = en,
         !.attendees = b.attendees, !.email = b.email,
         !.organizerEmail = o, !.responses = rs] :
        s \in Starts, en \in Ends, b \in Bookers, o \in Organizers, rs \in ResponseSets }

\* a body wraps its payload in `payload`, or carries the payload keys itself
Bodies ==
    { [triggerEvent |-> ev[1], event |-> ev[2], type |-> ev[3],
       hasPayload |-> w,
       payload |-> IF w THEN p ELSE EmptyPayload,
       own |-> IF w THEN EmptyPayload ELSE p] :
        ev \in EventKeys, w \in BOOLEAN, p \in Payloads }

EmptyBody ==
    [triggerEvent |-> Undef, event |-> Undef, type |-> Undef,
     hasPayload |-> FALSE, payload |-> EmptyPayload, own |-> EmptyPayload]

Http(status, json, contact_id, contactId, id) ==
    [kind |-> "http", status |-> status, json |-> json,
     contact_id |-> contact_id, contactId |-> contactId, id |-> id]
NetworkError == [kind |-> "networkError", status |-> 0, json |-> FALSE,
                 contact_id |-> Undef, contactId |-> Undef, id |-> Undef]

\* what the CRM may answer to /contacts/upsert
UpsertReplies ==
    { NetworkError,
      Http(500, FALSE, Undef, Undef, Undef),
      Http(404, TRUE, Undef, Undef, Str(ID_c3)),
      Http(200, TRUE, Str(ID_c1), Undef, Str(ID_c3)),
      Http(201, TRUE, Undef, Str(ID_c2), Undef),
      Http(200, TRUE, Undef, Undef, Str(ID_c3)),
      Http(200, TRUE, Undef, Undef, Undef),
      Http(200, FALSE, Undef, Undef, Undef) }

\* what the CRM may answer to /calendars/events/appointments
CreateReplies ==
    { NetworkError,
      Http(422, TRUE, Undef, Undef, Undef),
      Http(201, TRUE, Undef, Undef, Str(ID_a1)),
      Http(200, TRUE, Undef, Undef, Undef) }

(***************************************************************************)
(* The state machine                                                       *)
(***************************************************************************)
\* no helper is called on its own while the handler is driven
NoCall == [fn |-> "none"]
NoReturn == [state |-> "none"]

Init ==
    /\ variant \in {"A", "B", "C"}
    /\ env \in Envs
    /\ calendarMap = ParseCalendarMapping(variant, env.CALENDAR_MAPPING)
    /\ fieldMap = ParseFieldMapping(variant, env.CUSTOM_FIELD_MAPPING)
    /\ pc = [r \in Req |-> "idle"]
    /\ body = [r \in Req |-> EmptyBody]
    /\ locals = [r \in Req |-> NoLocals]
    /\ calls = [r \in Req |-> << >>]
    /\ replies = [r \in Req |-> << >>]
    /\ responses = [r \in Req |-> << >>]
    /\ arg = NoCall
    /\ ret = NoReturn

\* One step of a handler whose local variables are declared at module level,
\* one set for all requests.
Step_moduleLevelLocals(r, o) ==
    /\ pc' = [pc EXCEPT ![r] = o.next]
    /\ locals' = [q \in Req |-> o.locals]
    /\ calls' = [calls EXCEPT ![r] = @ \o o.call]
    /\ responses' = [responses EXCEPT ![r] = @ \o o.response]
    /\ UNCHANGED <<variant, env, calendarMap, fieldMap, arg, ret>>

\* One step of a handler: it runs to its next await or to its end.
Step(r, o) ==
    /\ pc' = [pc EXCEPT ![r] = o.next]
    /\ locals' = [locals EXCEPT ![r] = o.locals]
    /\ calls' = [calls EXCEPT ![r] = @ \o o.call]
    /\ responses' = [responses EXCEPT ![r] = @ \o o.response]
    /\ UNCHANGED <<variant, env, calendarMap, fieldMap, arg, ret>>

\* A request arrives with a body of `bodies` and its handler runs up to the
\* first await.
Receive(r, bodies) ==
    /\ pc[r] = "idle"
    /\ \E data \in bodies :
          /\ body' = [body EXCEPT ![r] = data]
          /\ Step(r, HandlerStart(variant, env, calendarMap, fieldMap, data))
    /\ UNCHANGED replies

\* The upsert's fetch settles and the handler resumes.
UpsertSettles(r) ==
    /\ pc[r] = "awaitUpsert"
    /\ \E reply \in UpsertReplies :
          /\ replies' = [replies EXCEPT ![r] = Append(@, reply)]
          /\ Step(r, HandlerAfterUpsert(variant, env, locals[r], reply))
    /\ UNCHANGED body

\* The create's fetch settles and the handler resumes.
CreateSettles(r) ==
    /\ pc[r] = "awaitCreate"
    /\ \E reply \in CreateReplies :
          /\ replies' = [replies EXCEPT ![r] = Append(@, reply)]
          /\ Step(r, HandlerAfterCreate(variant, locals[r], reply))
    /\ UNCHANGED body

\* One request, every body and every reply.
Next ==
    \/ Receive(1, Bodies)
    \/ UpsertSettles(1)
    \/ CreateSettles(1)

Spec == Init /\ [][Next]_vars

(***************************************************************************)
(* Properties                                                              *)
(***************************************************************************)
Started(r) == pc[r] # "idle"
CallOps(r) == [i \in 1..Len(calls[r]) |-> calls[r][i].op]
CreateIssued(r) == \E i \in 1..Len(calls[r]) : calls[r][i].op = "createAppointment"

\* a CRM call failed: the network failed or the status is not 2xx
ReplyFailed(reply) == reply.kind = "networkError" \/ reply.status < 200 \/ reply.status > 299
\* a reply body is JSON with one of contact.id, contactId, id
ReplyHasContactId(reply) ==
    reply.kind = "http" /\ reply.json
    /\ (Truthy(reply.contact_id) \/ Truthy(reply.contactId) \/ Truthy(reply.id))

\* the configuration check of the deployed variant passes
ConfigPasses ==
    /\ Truthy(env.GHL_PRIVATE_TOKEN)
    /\ Truthy(env.GHL_LOCATION_ID)
    /\ (variant = "B" => Truthy(env.GHL_CALENDAR_ID))

\* the event of the request, from triggerEvent, event or type, contains
\* "PING" in any letter case
EventHasPing(r) == Includes(ToUpperCase(TriggerEventOf(body[r])), S_PING)

\* C1: createAppointment is called only when the upsert of the same request
\* produced a contact id; a 2xx upsert body without contact.id, contactId and
\* id never leads to a create-appointment call.
C1_CreateOnlyWithContactId ==
    \A r \in Req :
        CreateIssued(r) => (Len(replies[r]) >= 1 /\ ReplyHasContactId(replies[r][1]))

C3_CallsPrefixOfUpsertCreate ==
    \A r \in Req :
        /\ CallOps(r) \in { << >>, <<"upsertContact">>, <<"upsertContact", "createAppointment">> }
        /\ Len(replies[r]) <= Len(calls[r])
        /\ Len(calls[r]) = 2 => (Len(replies[r]) >= 1 /\ ~ReplyFailed(replies[r][1]))
        /\ (Len(replies[r]) >= 1 /\ ReplyFailed(replies[r][1])) =>
               (CallOps(r) = <<"upsertContact">> /\ pc[r] = "done")

C3_Witness ==
    \E r \in Req :
        /\ Len(replies[r]) = 1 /\ ReplyFailed(replies[r][1])
        /\ CallOps(r) = <<"upsertContact">> /\ pc[r] = "done"

\* C4: a handler sends exactly one response: none while a CRM call of the
\* request is outstanding, one once every issued call has returned (or none
\* was issued), never two.
C4_ExactlyOneResponse ==
    \A r \in Req :
        /\ Len(responses[r]) <= 1
        /\ Started(r) => Len(responses[r]) = (IF Len(replies[r]) = Len(calls[r]) THEN 1 ELSE 0)
        /\ (pc[r] = "done") <=> (Len(responses[r]) = 1)

C4_Witness ==
    \E r \in Req :
        /\ Len(replies[r]) = 2 /\ ReplyFailed(replies[r][2])
        /\ Len(responses[r]) = 1 /\ pc[r] = "done"

\* what the request lacks: no truthy email in any of the four sources, a
\* start or an end that normalises to null
EmailMissing(p) ==
    /\ ~Truthy(FirstAttendee(p).email) /\ ~Truthy(ResponseValue(p, K_email))
    /\ ~Truthy(p.invitee.email) /\ ~Truthy(p.email)
StartMissing(p) == normalizeTime(Or(p.startTime, p.start)) = Null
EndMissing(p) == normalizeTime(Or(p.endTime, p.end)) = Null
\* no default calendar, and the organizer email is absent or no key of the
\* routing table
CalendarMissing(p) ==
    /\ ~Truthy(env.GHL_CALENDAR_ID)
    /\ \/ p.organizerEmail.t # "string"
       \/ LET lower == ToLowerCase(p.organizerEmail.v)
              key == IF Includes(lower, S_surajPrefix) THEN S_surajCanonical ELSE lower
          IN  \A i \in 1..Len(calendarMap) : calendarMap[i].k # key

\* C5 (variant A, past the configuration check and the PING check): a request
\* that lacks email, start or end, or for which no calendar id is resolved, is
\* answered 400 and makes no CRM call.
C5_MissingFieldGives400 ==
    \A r \in Req :
        LET p == PayloadOf(body[r])
        IN  (/\ variant = "A" /\ Started(r) /\ ConfigPasses /\ ~EventHasPing(r)
             /\ (EmailMissing(p) \/ StartMissing(p) \/ EndMissing(p) \/ CalendarMissing(p))) =>
                /\ calls[r] = << >>
                /\ Len(responses[r]) = 1
                /\ responses[r][1].status = 400

\* C6 (past the configuration check and the PING check): a request whose event
\* is none of created/booked/rescheduled makes no CRM call and is answered 200.
C6_OtherEventsTakeNoAction ==
    \A r \in Req :
        (/\ Started(r) /\ ConfigPasses /\ ~EventHasPing(r)
         /\ ~shouldCreateAppointment(TriggerEventOf(body[r]))) =>
            /\ calls[r] = << >>
            /\ Len(responses[r]) = 1
            /\ responses[r][1].status = 200

\* C7: a 200 "Synced" response comes only after two 2xx replies and carries
\* the contact id of the upsert reply and the id of the create reply.
IsSynced(resp) == resp.status = 200 /\ resp.message = "Synced to GoHighLevel"
C7_SyncedCarriesBothIds ==
    \A r \in Req :
        (responses[r] # << >> /\ IsSynced(responses[r][1])) =>
            /\ Len(replies[r]) = 2
            /\ ~ReplyFailed(replies[r][1]) /\ ~ReplyFailed(replies[r][2])
            /\ responses[r][1].contactId = ContactIdOf(ghlRequest(replies[r][1]).data)
            /\ responses[r][1].appointmentId = ghlRequest(replies[r][2]).data.id

\* the message of the Error a failed CRM call raises
FailureMessage(reply) ==
    IF reply.kind = "networkError" THEN "fetch failed"
    ELSE "GHL API error " \o ToString(reply.status)

\* the exception a request's CRM stage raised, "" when none: a failed call, or
\* (variants B and C) a 2xx upsert body without a contact id
RaisedMessage(r) ==
    CASE Len(replies[r]) >= 1 /\ ReplyFailed(replies[r][1]) -> FailureMessage(replies[r][1])
      [] Len(replies[r]) >= 1 /\ ~ReplyHasContactId(replies[r][1]) /\ variant = "B" -> "No contactId in response"
      [] Len(replies[r]) >= 1 /\ ~ReplyHasContactId(replies[r][1]) /\ variant = "C" -> "Failed to get contactId from GHL"
      [] Len(replies[r]) = 2 /\ ReplyFailed(replies[r][2]) -> FailureMessage(replies[r][2])
      [] OTHER -> ""
\* the status the failed call's Error carries, 0 when it has none
RaisedStatus(r) ==
    CASE Len(replies[r]) >= 1 /\ ReplyFailed(replies[r][1]) -> replies[r][1].status
      [] Len(replies[r]) >= 1 /\ ~ReplyHasContactId(replies[r][1]) /\ variant \in {"B", "C"} -> 0
      [] Len(replies[r]) = 2 /\ ReplyFailed(replies[r][2]) -> replies[r][2].status
      [] OTHER -> 0
\* the extraction stage raised a TypeError: the organizer email is neither
\* absent nor a string (variants A and C read it)
ExtractionRaised(r) ==
    LET v == PayloadOf(body[r]).organizerEmail
    IN  /\ Started(r) /\ ConfigPasses /\ ~EventHasPing(r) /\ variant \in {"A", "C"}
        /\ v.t \notin {"undefined", "null", "string"}

\* C8 as stated: every exception is answered 500 with the exception's message.
C8_ExceptionGives500 ==
    \A r \in Req :
        /\ RaisedMessage(r) # "" =>
              /\ Len(responses[r]) = 1
              /\ responses[r][1].status = 500
              /\ responses[r][1].message = RaisedMessage(r)
        /\ ExtractionRaised(r) => (Len(responses[r]) = 1 /\ responses[r][1].status = 500)

\* C8 amended: every exception is answered once, not ok, with the exception's
\* message; the status is 500, except that variant B answers with the status
\* of the Error when it carries one (the non-2xx status of the CRM).
C8_ExceptionIsReported ==
    \A r \in Req :
        /\ RaisedMessage(r) # "" =>
              /\ Len(responses[r]) = 1
              /\ ~responses[r][1].ok
              /\ responses[r][1].message = RaisedMessage(r)
              /\ responses[r][1].status =
                    IF variant = "B" /\ RaisedStatus(r) # 0 THEN RaisedStatus(r) ELSE 500
        /\ ExtractionRaised(r) =>
              /\ Len(responses[r]) = 1
              /\ ~responses[r][1].ok
              /\ responses[r][1].status = 500
              /\ responses[r][1].message \in
                    { "TypeError in extractCustomFields",
                      "payload?.organizer?.email?.toLowerCase is not a function" }

C8_Witness ==
    \E r \in Req :
        /\ Len(replies[r]) = 2 /\ replies[r][2].kind = "http" /\ replies[r][2].status = 422
        /\ Len(responses[r]) = 1
        /\ responses[r][1].message = "GHL API error 422"

\* C9 (variants A and C): the 400 of a failed validation carries a debug
\* object with email, startTime, endTime and the resolved calendar id.
DebugKeys(resp) == { resp.debug[i].k : i \in 1..Len(resp.debug) }
C9_ValidationDebug ==
    \A r \in Req :
        (variant \in {"A", "C"} /\ responses[r] # << >> /\ responses[r][1].status = 400) =>
            /\ ~responses[r][1].ok
            /\ DebugKeys(responses[r][1]) = {"email", "startTime", "endTime", "targetCalendarId"}

\* the body of the create-appointment call of a request
CreateBody(r) == calls[r][CHOOSE i \in 1..Len(calls[r]) : calls[r][i].op = "createAppointment"].body
\* the appointment is routed by the entry of `key`, or to the default calendar
RoutedBy(r, key) ==
    IF key # << >> /\ MapHas(calendarMap, key)
    THEN /\ CreateBody(r).calendarId = MapGet(calendarMap, key).calId
         /\ CreateBody(r).assignedUserId =
                IF Truthy(MapGet(calendarMap, key).userId) THEN MapGet(calendarMap, key).userId ELSE Undef
    ELSE /\ CreateBody(r).calendarId = env.GHL_CALENDAR_ID
         /\ CreateBody(r).assignedUserId = Undef
\* the organizer email of the request in lower case, << >> when absent
LoweredOrganizer(r) ==
    LET v == PayloadOf(body[r]).organizerEmail
    IN  IF v.t = "string" THEN ToLowerCase(v.v) ELSE << >>

\* C10 as stated (variant A): the appointment goes to the calendar and user of
\* the lower-cased organizer email when it is a key of the routing table, and
\* to the default calendar with no user when it is not.
C10_RoutedByLoweredEmail ==
    \A r \in Req :
        (variant = "A" /\ CreateIssued(r)) => RoutedBy(r, LoweredOrganizer(r))

\* C10 amended (variant A): the key looked up is the lower-cased organizer
\* email, replaced by suraj.kumar@digitalwebsolutions.in when it contains
\* suraj.kumar@digitalwebsolutions.
C10_RoutedByCorrectedEmail ==
    \A r \in Req :
        (variant = "A" /\ CreateIssued(r)) =>
            RoutedBy(r, IF Includes(LoweredOrganizer(r), S_surajPrefix)
                        THEN S_surajCanonical ELSE LoweredOrganizer(r))

C10_Witness ==
    \E r \in Req :
        /\ variant = "A" /\ CreateIssued(r)
        /\ PayloadOf(body[r]).organizerEmail = Str(M_Jane)
        /\ CreateBody(r).calendarId = Str(ID_cal1)
        /\ CreateBody(r).assignedUserId = Str(ID_user7)

(***************************************************************************)
(* Helpers called on their own: `arg` names the helper and its argument,   *)
(* `ret` is the outcome of the call.                                       *)
(***************************************************************************)
Pending == [state |-> "pending"]
Returned(value) == [state |-> "returned", value |-> value]

\* the state after startup of variant v under process.env e, no request yet
StartedUp(v, e) ==
    /\ variant = v
    /\ env = e
    /\ calendarMap = ParseCalendarMapping(v, e.CALENDAR_MAPPING)
    /\ fieldMap = ParseFieldMapping(v, e.CUSTOM_FIELD_MAPPING)
    /\ pc = [r \in Req |-> "idle"]
    /\ body = [r \in Req |-> EmptyBody]
    /\ locals = [r \in Req |-> NoLocals]
    /\ calls = [r \in Req |-> << >>]
    /\ replies = [r \in Req |-> << >>]
    /\ responses = [r \in Req |-> << >>]

\* what a helper call leaves alone
UnchangedByHelper ==
    UNCHANGED <<variant, env, calendarMap, fieldMap, pc, body, locals, calls, replies,
                responses, arg>>

HelperEnv(fields) ==
    [GHL_PRIVATE_TOKEN |-> Str(ID_tok), GHL_LOCATION_ID |-> Str(ID_loc),
     GHL_CALENDAR_ID |-> Str(ID_cal0), CALENDAR_MAPPING |-> << >>,
     CUSTOM_FIELD_MAPPING |-> fields]

(***************************************************************************)
(* normalizeDropdownValue(value) called on every kind of value             *)
(***************************************************************************)
D_Engineer == <<"E","n","g","i","n","e","e","r">>
D_VpSales == <<"V","p"," "," ","S","a","l","e","s">>
D_ceo == <<"c","e","o">>
D_OtherDot == <<"O","t","h","e","r",".">>
D_Constructor == <<"C","o","n","s","t","r","u","c","t","o","r">>

\* white space around a value
Pads == { << >>, <<" ">>, <<"\t", " ">> }
\* the spellings of the known options: every key of the two tables as
\* written, in upper case, and in its canonical spelling
OptionSpellings ==
    UNION { { roleOptions[i].k, ToUpperCase(roleOptions[i].k), roleOptions[i].val } :
              i \in 1..Len(roleOptions) }
    \cup UNION { { budgetOptions[i].k, ToUpperCase(budgetOptions[i].k), budgetOptions[i].val } :
              i \in 1..Len(budgetOptions) }
\* strings that are no option
OtherSpellings ==
    { << >>, D_Engineer, D_VpSales, D_ceo, D_OtherDot, P_constructor, D_Constructor, P_proto }

DropdownInputs ==
    { Str(l \o s \o t) : l \in Pads, t \in Pads, s \in OptionSpellings \cup OtherSpellings }
    \cup { Undef, Null, Num(0), Num(5), Obj }

InitDropdown ==
    /\ StartedUp("A", HelperEnv(CFG_fields))
    /\ arg \in { [fn |-> "normalizeDropdownValue", value |-> x] : x \in DropdownInputs }
    /\ ret = Pending

CallNormalizeDropdownValue ==
    /\ arg.fn = "normalizeDropdownValue"
    /\ ret.state = "pending"
    /\ ret' = Returned(normalizeDropdownValue(arg.value))
    /\ UnchangedByHelper

SpecDropdown == InitDropdown /\ [][CallNormalizeDropdownValue]_vars

\* the call of normalizeDropdownValue on a string has returned
DropdownReturned == arg.fn = "normalizeDropdownValue" /\ ret.state = "returned" /\ arg.value.t = "string"
\* n is a key written in one of the two tables
KnownSynonym(n) ==
    \/ \E i \in 1..Len(roleOptions) : roleOptions[i].k = n
    \/ \E i \in 1..Len(budgetOptions) : budgetOptions[i].k = n
CanonicalOf(n) ==
    IF \E i \in 1..Len(roleOptions) : roleOptions[i].k = n
    THEN roleOptions[CHOOSE i \in 1..Len(roleOptions) : roleOptions[i].k = n].val
    ELSE budgetOptions[CHOOSE i \in 1..Len(budgetOptions) : budgetOptions[i].k = n].val

\* C11: normalizeDropdownValue returns the canonical spelling for every known
\* synonym in any letter case and with surrounding white space, and for every
\* other string the trimmed input, a string, its case kept.
C11_CanonicalOrTrimmed ==
    DropdownReturned =>
        LET val == Trim(arg.value.v)
        IN  ret.value = Str(IF KnownSynonym(ToLowerCase(val)) THEN CanonicalOf(ToLowerCase(val)) ELSE val)

(***************************************************************************)
(* extractCustomFields(payload) called on its own (variant A)              *)
(***************************************************************************)
L_plain == <<"W","h","a","t","'","s"," ","y","o","u","r"," ","r","o","l","e">>
L_title == <<"W","h","a","t","'","s"," ","Y","o","u","r"," ","R","o","l","e","?">>
L_bare == <<"w","h","a","t","s"," ","y","o","u","r"," ","r","o","l","e">>
L_spaced == <<"W","h","a","t","'","s"," "," "," ","Y","o","u","r"," ","R","o","l","e">>
L_spaceMark == <<"W","h","a","t","'","s"," ","y","o","u","r"," ","r","o","l","e"," ","?">>
L_trailing == <<"W","h","a","t","'","s"," ","y","o","u","r"," ","r","o","l","e"," ">>
L_dashFirst == <<"-"," ","W","h","a","t","'","s"," ","y","o","u","r"," ","r","o","l","e">>
L_leading == <<" ","W","h","a","t","'","s"," ","y","o","u","r"," ","r","o","l","e">>
L_other == <<"W","h","a","t"," ","i","s"," ","y","o","u","r"," ","r","o","l","e">>
K_q2 == <<"q","2">>
CFG_fieldsMark == <<"W","h","a","t","'","s"," ","y","o","u","r"," ","r","o","l","e",":","c","o","n","t","a","c","t",".","r","o","l","e",",","?",":","c","o","n","t","a","c","t",".","n","o","t","e">>

FieldLabels ==
    { L_plain, L_title, L_bare, L_spaced, L_spaceMark, L_trailing, L_dashFirst, L_leading, L_other }
FieldValues == { Str(V_ceo), Str(D_Engineer) }

\* a payload whose responses object has the entries rs, in key order
PayloadWith(rs) == [EmptyPayload EXCEPT !.responses = rs]
Entry(key, label, value) == [key |-> key, isNull |-> FALSE, label |-> label, value |-> value]

\* the structure of a label: its letters, digits and underscores in lower
\* case, one space for each run of white space, punctuation left out
RECURSIVE StructureOf(_)
StructureOf(s) ==
    IF s = << >> THEN << >>
    ELSE LET c == Head(s)
             rest == StructureOf(Tail(s))
         IN  IF IsSpace(c) THEN (IF rest # << >> /\ Head(rest) = " " THEN rest ELSE <<" ">> \o rest)
             ELSE IF IsWord(c) THEN <<LowerChar(c)>> \o rest
             ELSE rest
\* the letters, digits and underscores of a label alone, in lower case
LettersOf(s) == SelectSeq(StructureOf(s), LAMBDA c : c # " ")

\* two entries under `key` with one value, whose labels differ only in letter
\* case, punctuation and the length of runs of white space
TwinEntries(key) ==
    { <<Entry(key, Str(ab[1]), x), Entry(key, Str(ab[2]), x)>> :
        ab \in { lm \in FieldLabels \X FieldLabels : StructureOf(lm[1]) = StructureOf(lm[2]) },
        x \in FieldValues }

\* responses with entries that are null, lack a label, lack a value, or carry
\* a label that is no string
MalformedResponses ==
    { << [key |-> K_q1, isNull |-> TRUE, label |-> Undef, value |-> Undef] >>,
      << Entry(K_q1, Undef, Str(V_ceo)) >>,
      << Entry(K_q1, Str(<< >>), Str(V_ceo)) >>,
      << Entry(K_q1, Str(L_title), Undef) >>,
      << Entry(K_q1, Str(L_title), Null) >>,
      << Entry(K_q1, Num(5), Str(V_ceo)) >>,
      << Entry(K_q1, Obj, Str(V_ceo)) >>,
      << Entry(K_q1, Null, Str(V_ceo)), Entry(K_q2, Str(L_title), Str(V_ceo)) >>,
      << Entry(K_q1, Str(L_title), Obj) >>,
      << Entry(K_q1, Str(L_title), Num(5)) >>,
      << Entry(K_q1, Str(L_title), Str(P_constructor)) >> }

\* the payloads of the calls: one, or two that differ only in their labels
FieldCalls ==
    { << PayloadWith(<<e[1]>>), PayloadWith(<<e[2]>>) >> : e \in TwinEntries(K_q1) }
    \cup { << PayloadWith(<<e[1], f[1]>>), PayloadWith(<<e[2], f[2]>>) >> :
             e \in TwinEntries(K_q1), f \in TwinEntries(K_q2) }
    \cup { << PayloadWith(rs) >> : rs \in MalformedResponses }

InitFields ==
    /\ \E cfg \in { CFG_fields, CFG_fieldsMark } : StartedUp("A", HelperEnv(cfg))
    /\ arg \in { [fn |-> "extractCustomFields", payloads |-> ps] : ps \in FieldCalls }
    /\ ret = Pending

\* The next call: extractCustomFields on the next payload of arg.
CallExtractCustomFields ==
    /\ arg.fn = "extractCustomFields"
    /\ LET done == IF ret.state = "pending" THEN << >> ELSE ret.value
       IN  /\ Len(done) < Len(arg.payloads)
           /\ ret' = Returned(Append(done,
                         extractCustomFields(variant, fieldMap, arg.payloads[Len(done) + 1])))
    /\ UnchangedByHelper

SpecFields == InitFields /\ [][CallExtractCustomFields]_vars

\* every call of arg has been made
FieldCallsDone ==
    arg.fn = "extractCustomFields" /\ ret.state = "returned" /\ Len(ret.value) = Len(arg.payloads)
\* the entries of rs and qs agree in key and value and differ in their labels
\* only in letter case, punctuation and the length of runs of white space
LabelsOnlyDiffer(rs, qs) ==
    /\ Len(rs) = Len(qs)
    /\ \A i \in 1..Len(rs) :
          /\ ~rs[i].isNull /\ ~qs[i].isNull
          /\ rs[i].key = qs[i].key /\ rs[i].value = qs[i].value
          /\ rs[i].label.t = "string" /\ qs[i].label.t = "string"
          /\ StructureOf(rs[i].label.v) = StructureOf(qs[i].label.v)
\* the value stored under `key` in the result, Undef when nothing is
StoredUnder(fields, key) ==
    IF \E i \in 1..Len(fields) : fields[i].k = key
    THEN fields[CHOOSE i \in 1..Len(fields) : fields[i].k = key].val
    ELSE Undef

\* C12: labels that differ only in letter case, punctuation and runs of white
\* space match the same configured label (two payloads that differ only so
\* give the same fields), and the value of the first matching entry is the
\* one stored under the label's outbound key.
C12_LabelStructureInsensitive ==
    (/\ FieldCallsDone /\ Len(arg.payloads) = 2
     /\ LabelsOnlyDiffer(arg.payloads[1].responses, arg.payloads[2].responses)) =>
        /\ ret.value[1].fields = ret.value[2].fields
        /\ \A n \in 1..2 : \A m \in 1..Len(fieldMap) :
              LET rs == arg.payloads[n].responses
                  target == fieldMap[m].k
              IN  \A i \in 1..Len(rs) :
                     (/\ ToLowerCase(rs[i].label.v) = target
                      /\ \A j \in 1..(i - 1) : LettersOf(rs[j].label.v) # LettersOf(target)) =>
                         StoredUnder(ret.value[n].fields, fieldMap[m].val) =
                             normalizeDropdownValue(rs[i].value)

(***************************************************************************)
(* extractAttendee(payload) called on its own                              *)
(***************************************************************************)
\* what one source says of the booker; d tells the sources apart.  A source
\* is absent, or gives some of name, email and phone, some of them empty
PersonsOf(d) ==
    { NoPerson,
      [name |-> Str(<< >>), email |-> Str(<<"e", d>>), phone |-> Undef],
      [name |-> Str(<<"n", d>>), email |-> Str(<< >>), phone |-> Null],
      [name |-> Str(<<"n", d>>), email |-> Str(<<"e", d>>), phone |-> Str(<<"p", d>>)] }

\* payload.responses of a person: an entry for each field the person has
ResponsesOf(person) ==
    SelectSeq(<< Entry(K_name, Undef, person.name), Entry(K_email, Undef, person.email),
                 Entry(K_phone, Undef, person.phone) >>,
              LAMBDA e : e.value # Undef)

AttendeePayloads ==
    { [EmptyPayload EXCEPT
         !.attendees = IF a = NoPerson THEN << >> ELSE <<a>>,
         !.responses = ResponsesOf(r),
         !.invitee = i,
         !.name = t.name, !.email = t.email, !.phone = t.phone] :
        a \in PersonsOf("1"), r \in PersonsOf("2"), i \in PersonsOf("3"), t \in PersonsOf("4") }

InitAttendee ==
    /\ StartedUp("A", HelperEnv(CFG_fields))
    /\ arg \in { [fn |-> "extractAttendee", payload |-> p] : p \in AttendeePayloads }
    /\ ret = Pending

CallExtractAttendee ==
    /\ arg.fn = "extractAttendee"
    /\ ret.state = "pending"
    /\ ret' = Returned(extractAttendee(arg.payload))
    /\ UnchangedByHelper

SpecAttendee == InitAttendee /\ [][CallExtractAttendee]_vars

AttendeeReturned == arg.fn = "extractAttendee" /\ ret.state = "returned"
\* what the four sources of a payload give for the fields name, email, phone:
\* attendees[0], responses.<field>.value, invitee, the top-level keys
SourcesOf(p) ==
    LET att == IF p.attendees = << >> THEN NoPerson ELSE p.attendees[1]
        resp(key) == IF \E n \in 1..Len(p.responses) : p.responses[n].key = key
                     THEN p.responses[CHOOSE n \in 1..Len(p.responses) : p.responses[n].key = key].value
                     ELSE Undef
    IN  [name |-> <<att.name, resp(K_name), p.invitee.name, p.name>>,
         email |-> <<att.email, resp(K_email), p.invitee.email, p.email>>,
         phone |-> <<att.phone, resp(K_phone), p.invitee.phone, p.phone>>]
AttendeeDefaults == [name |-> Str(S_Unknown), email |-> Null, phone |-> Null]
\* a value that is there: neither undefined nor null
Defined(x) == x.t \notin {"undefined", "null"}
\* a value that is there and is not the empty string or 0
Filled(x) == Defined(x) /\ x.v # << >> /\ ~(x.t = "number" /\ x.v = <<"0">>)
FirstDefined(vals, default) ==
    IF \E i \in 1..Len(vals) : Defined(vals[i])
    THEN vals[CHOOSE i \in 1..Len(vals) : Defined(vals[i]) /\ \A j \in 1..(i - 1) : ~Defined(vals[j])]
    ELSE default
FirstFilled(vals, default) ==
    IF \E i \in 1..Len(vals) : Filled(vals[i])
    THEN vals[CHOOSE i \in 1..Len(vals) : Filled(vals[i]) /\ \A j \in 1..(i - 1) : ~Filled(vals[j])]
    ELSE default

\* C13 as stated: each of name, email and phone is the first defined value of
\* its four sources, an empty string included, and the default when all four
\* are absent.
C13_FirstDefinedWins ==
    AttendeeReturned =>
        \A f \in {"name", "email", "phone"} :
            ret.value[f] = FirstDefined(SourcesOf(arg.payload)[f], AttendeeDefaults[f])

\* C13 amended: each of name, email and phone is, independently, the first
\* value of its four sources that is neither absent, null, the empty string
\* nor 0, and the default ("Unknown", null, null) when there is none.
C13_FirstFilledWins ==
    AttendeeReturned =>
        \A f \in {"name", "email", "phone"} :
            ret.value[f] = FirstFilled(SourcesOf(arg.payload)[f], AttendeeDefaults[f])

C13_Witness ==
    /\ AttendeeReturned
    /\ arg.payload.attendees # << >>
    /\ arg.payload.attendees[1].email = Str(<< >>)
    /\ arg.payload.attendees[1].name = Str(<<"n", "1">>)
    /\ arg.payload.invitee.email = Str(<<"e", "3">>)
    /\ SourcesOf(arg.payload).email[2] = Undef
    /\ ret.value.email = Str(<<"e", "3">>)
    /\ ret.value.name = Str(<<"n", "1">>)

\* C14: extractCustomFields never throws, whatever the payload and the field
\* map, and skips the response entries that are null, lack a label or lack a
\* value: every value it stores comes from an entry that has both.
C14_ExtractionNeverThrows ==
    (arg.fn = "extractCustomFields" /\ ret.state = "returned") =>
        \A n \in 1..Len(ret.value) :
            LET rs == arg.payloads[n].responses
                fields == ret.value[n].fields
            IN  /\ ~ret.value[n].threw
                /\ \A m \in 1..Len(fields) :
                      \E i \in 1..Len(rs) :
                          /\ ~rs[i].isNull
                          /\ rs[i].label.t # "undefined"
                          /\ rs[i].value.t # "undefined"
                          /\ fields[m].val = normalizeDropdownValue(rs[i].value)

(***************************************************************************)
(* Requests in flight together.  Node runs one handler at a time up to its *)
(* next await; the handlers of the requests interleave at the awaits, and  *)
(* a fetch that never settles leaves its handler waiting for ever.         *)
(***************************************************************************)
ConcurrentEnv == [HelperEnv(CFG_fields) EXCEPT !.CALENDAR_MAPPING = CFG_calendar]

\* a booking, a booking without an end time that differs from it in every
\* field, and a PING
ConcurrentBodies ==
    { [EmptyBody EXCEPT
         !.triggerEvent = Str(E_CREATED), !.hasPayload = TRUE,
         !.payload = [EmptyPayload EXCEPT
                        !.startTime = Str(T_1000), !.endTime = Str(T_1030),
                        !.attendees = << [name |-> Str(N_Jo), email |-> Str(M_jo), phone |-> Undef] >>,
                        !.organizerEmail = Str(M_Jane),
                        !.responses = << RoleAnswer >>]],
      [EmptyBody EXCEPT
         !.event = Str(E_rescheduled),
         !.own = [EmptyPayload EXCEPT
                    !.start = Str(T_1000_offset),
                    !.email = Str(M_amy),
                    !.organizerEmail = Str(M_bob)]],
      [EmptyBody EXCEPT !.type = Str(E_ping)] }

InitConcurrent ==
    /\ StartedUp("A", ConcurrentEnv)
    /\ arg = NoCall
    /\ ret = NoReturn

\* Any request arrives, or the outstanding fetch of any request settles.
NextConcurrent ==
    \E r \in Req :
        \/ Receive(r, ConcurrentBodies)
        \/ UpsertSettles(r)
        \/ CreateSettles(r)

\* The CRM calls of request 1 return; those of the other requests may never.
SpecConcurrent ==
    /\ InitConcurrent
    /\ [][NextConcurrent]_vars
    /\ WF_vars(UpsertSettles(1))
    /\ WF_vars(CreateSettles(1))

\* The handler of request r run alone on the body and the CRM replies of r,
\* under the configuration: its calls, its responses and where it stands.
Isolated(r) ==
    LET o1 == HandlerStart(variant, env, calendarMap, fieldMap, body[r])
        step2 == o1.next = "awaitUpsert" /\ Len(replies[r]) >= 1
        o2 == HandlerAfterUpsert(variant, env, o1.locals, replies[r][1])
        step3 == step2 /\ o2.next = "awaitCreate" /\ Len(replies[r]) >= 2
        o3 == HandlerAfterCreate(variant, o2.locals, replies[r][2])
    IN  [pc |-> IF step3 THEN o3.next ELSE IF step2 THEN o2.next ELSE o1.next,
         calls |-> o1.call \o (IF step2 THEN o2.call ELSE << >>) \o (IF step3 THEN o3.call ELSE << >>),
         responses |-> o1.response \o (IF step2 THEN o2.response ELSE << >>)
                       \o (IF step3 THEN o3.response ELSE << >>)]

\* what request r did is what its handler does alone on r's body and replies
DependsOnOwnInputs ==
    \A r \in Req :
        Started(r) =>
            /\ pc[r] = Isolated(r).pc
            /\ calls[r] = Isolated(r).calls
            /\ responses[r] = Isolated(r).responses
\* the routing map and the field map are as startup built them
MapsAsBuilt ==
    /\ calendarMap = ParseCalendarMapping(variant, env.CALENDAR_MAPPING)
    /\ fieldMap = ParseFieldMapping(variant, env.CUSTOM_FIELD_MAPPING)

\* C15: under every interleaving, a request whose own CRM calls return gets
\* its response even if the call of another request never returns; what a
\* request calls and answers depends only on its own body, the configuration
\* and its own CRM replies; no handler modifies calendarMap or fieldMap.
C15_RequestsAreIndependent ==
    /\ (Started(1) ~> (Len(responses[1]) = 1))
    /\ []DependsOnOwnInputs
    /\ []MapsAsBuilt
    /\ [][calendarMap' = calendarMap /\ fieldMap' = fieldMap]_vars

C15_Witness ==
    /\ pc[1] = "done" /\ Len(replies[1]) = 2 /\ IsSynced(responses[1][1])
    /\ pc[2] = "awaitUpsert" /\ replies[2] = << >>
====
